---- MODULE Spec2Model ----
(***************************************************************************)
(* Model of the codice_fiscale crate: CodiceFiscale::new (encode),         *)
(* CodiceFiscale::parse (decode), the checksum, and the name-fragment      *)
(* helpers of lib.rs and utils.rs.                                         *)
(*                                                                         *)
(* Text is modelled as a sequence of one-character strings, so that        *)
(* slicing, upper-casing, formatting and parsing are computed and not      *)
(* assumed.                                                                *)
(***************************************************************************)
EXTENDS Integers, Sequences, FiniteSets, TLC

VARIABLES
    build,          \* "debug" | "release": how the crate was compiled
    now_year,       \* time::now_utc().tm_year + 1900
    persondata,     \* the PersonData handed to CodiceFiscale::new
    newres,         \* what CodiceFiscale::new returned
    parse_in,       \* the text handed to CodiceFiscale::parse
    parseres,       \* what CodiceFiscale::parse returned
    raw_name,       \* the text handed to calc_name / calc_name_component
    cf_name,        \* what calc_name (lib.rs) produced
    name_component, \* what calc_name_component (utils.rs) produced
    body,           \* the text stored in self.codice for calc_checkchar
    checkchar,      \* what calc_checkchar returned
    raw_surname,    \* the text handed to calc_surname / calc_surname_component
    lib_surname,    \* what calc_surname (lib.rs) produced
    surname_component \* what calc_surname_component (utils.rs) produced

vars == <<build, now_year, persondata, newres, parse_in, parseres,
          raw_name, cf_name, name_component, body, checkchar,
          raw_surname, lib_surname, surname_component>>

surname_vars == <<raw_surname, lib_surname, surname_component>>

----------------------------------------------------------------------------
(* Characters *)

UpperLetters ==
    <<"A", "B", "C", "D", "E", "F", "G", "H", "I", "J", "K", "L", "M",
      "N", "O", "P", "Q", "R", "S", "T", "U", "V", "W", "X", "Y", "Z">>

LowerLetters ==
    <<"a", "b", "c", "d", "e", "f", "g", "h", "i", "j", "k", "l", "m",
      "n", "o", "p", "q", "r", "s", "t", "u", "v", "w", "x", "y", "z">>

DigitChars == <<"0", "1", "2", "3", "4", "5", "6", "7", "8", "9">>

Range(s) == {s[i] : i \in 1..Len(s)}

IndexOf(s, c) == CHOOSE i \in 1..Len(s) : s[i] = c

IsUpper(c) == c \in Range(UpperLetters)
IsLower(c) == c \in Range(LowerLetters)
IsDigit(c) == c \in Range(DigitChars)
DigitVal(c) == IndexOf(DigitChars, c) - 1

\* regex \w restricted to the characters of the model: letters, digits, '_'
IsWord(c) == IsUpper(c) \/ IsLower(c) \/ IsDigit(c) \/ c = "_"

\* char::to_uppercase on the characters of the model
char_to_uppercase(c) ==
    IF IsLower(c) THEN UpperLetters[IndexOf(LowerLetters, c)] ELSE c

\* str::to_uppercase
to_uppercase(s) == [i \in 1..Len(s) |-> char_to_uppercase(s[i])]

Take(s, n) == SubSeq(s, 1, IF n < Len(s) THEN n ELSE Len(s))

\* the iterator adaptor .rev()
Rev(s) == [i \in 1..Len(s) |-> s[Len(s) + 1 - i]]

----------------------------------------------------------------------------
(* Static tables of lib.rs *)

CONSONANTS ==
    <<"B", "C", "D", "F", "G", "H", "J", "K", "L", "M", "N",
      "P", "Q", "R", "S", "T", "V", "W", "X", "Y", "Z">>

VOWELS == <<"A", "E", "I", "O", "U">>

CENTURY_BASE == 2000

MONTHLETTERS == <<"A", "B", "C", "D", "E", "H", "L", "M", "P", "R", "S", "T">>

CHECKMODULI == UpperLetters

\* char -> <<weight at even 0-based index, weight at odd 0-based index>>
CHECKCHARS ==
    ("A" :> <<1, 0>>)   @@ ("B" :> <<0, 1>>)   @@ ("C" :> <<5, 2>>)   @@
    ("D" :> <<7, 3>>)   @@ ("E" :> <<9, 4>>)   @@ ("F" :> <<13, 5>>)  @@
    ("G" :> <<15, 6>>)  @@ ("H" :> <<17, 7>>)  @@ ("I" :> <<19, 8>>)  @@
    ("J" :> <<21, 9>>)  @@ ("K" :> <<2, 10>>)  @@ ("L" :> <<4, 11>>)  @@
    ("M" :> <<18, 12>>) @@ ("N" :> <<20, 13>>) @@ ("O" :> <<11, 14>>) @@
    ("P" :> <<3, 15>>)  @@ ("Q" :> <<6, 16>>)  @@ ("R" :> <<8, 17>>)  @@
    ("S" :> <<12, 18>>) @@ ("T" :> <<14, 19>>) @@ ("U" :> <<16, 20>>) @@
    ("V" :> <<10, 21>>) @@ ("W" :> <<22, 22>>) @@ ("X" :> <<25, 23>>) @@
    ("Y" :> <<24, 24>>) @@ ("Z" :> <<23, 25>>) @@
    ("0" :> <<1, 0>>)   @@ ("1" :> <<0, 1>>)   @@ ("2" :> <<5, 2>>)   @@
    ("3" :> <<7, 3>>)   @@ ("4" :> <<9, 4>>)   @@ ("5" :> <<13, 5>>)  @@
    ("6" :> <<15, 6>>)  @@ ("7" :> <<17, 7>>)  @@ ("8" :> <<19, 8>>)  @@
    ("9" :> <<21, 9>>)

is_consonant(c) == c \in Range(CONSONANTS)
is_vowel(c) == c \in Range(VOWELS)

----------------------------------------------------------------------------
(* Name fragment: lib.rs calc_name and utils.rs calc_name_component *)

\* the while loop "push vowels if needed (and there are)" of calc_name
RECURSIVE push_vowels(_, _)
push_vowels(cf, vowels) ==
    IF Len(cf) < 3 /\ Len(vowels) > 0
    THEN push_vowels(Append(cf, Head(vowels)), Tail(vowels))
    ELSE cf

\* the while loop "push Xs for missing chars"
RECURSIVE push_xs(_)
push_xs(cf) == IF Len(cf) < 3 THEN push_xs(Append(cf, "X")) ELSE cf

calc_name_gt4(name) ==
    LET up == to_uppercase(name)
        name_consonants == SelectSeq(up, is_consonant)
        name_vowels == SelectSeq(up, LAMBDA ch : ~is_consonant(ch) /\ is_vowel(ch))
    IN  IF Len(name_consonants) > 4
        THEN SubSeq(name_consonants, 1, 1) \o SubSeq(name_consonants, 3, 4)
        ELSE push_xs(push_vowels(name_consonants, name_vowels))

calc_name(name) ==
    LET up == to_uppercase(name)
        name_consonants == SelectSeq(up, is_consonant)
        name_vowels == SelectSeq(up, LAMBDA ch : ~is_consonant(ch) /\ is_vowel(ch))
    IN  IF Len(name_consonants) > 3
        THEN SubSeq(name_consonants, 1, 1) \o SubSeq(name_consonants, 3, 4)
        ELSE push_xs(push_vowels(name_consonants, name_vowels))

\* .enumerate().filter(|x| x.0 != k).map(|x| x.1): drop the item at 0-based index k
DropIndex(s, k) ==
    [i \in 1..(IF Len(s) > k THEN Len(s) - 1 ELSE Len(s)) |->
        IF i <= k THEN s[i] ELSE s[i + 1]]

calc_name_component(name) ==
    LET up == to_uppercase(name)
        all == SelectSeq(up, is_consonant)
        consonants ==
            IF Len(all) <= 3
            THEN Take(all, 3)
            ELSE Take(DropIndex(all, 1), 3)
        with_vowels ==
            IF Len(consonants) < 3
            THEN consonants \o Take(SelectSeq(up, is_vowel), 3 - Len(consonants))
            ELSE consonants
    IN  IF Len(with_vowels) < 3
        THEN with_vowels \o [i \in 1..(3 - Len(with_vowels)) |-> "X"]
        ELSE with_vowels

----------------------------------------------------------------------------
(* Surname fragment: lib.rs calc_surname *)

calc_surname(surname) ==
    LET up == to_uppercase(surname)
        surname_consonants == SelectSeq(up, is_consonant)
        surname_vowels == SelectSeq(up, LAMBDA ch : ~is_consonant(ch) /\ is_vowel(ch))
        cf_surname ==
            IF Len(surname_consonants) > 3
            THEN SubSeq(surname_consonants, 1, 3)
            ELSE surname_consonants
    IN  push_xs(push_vowels(cf_surname, surname_vowels))

\* utils.rs extract_consonants: despite its name, the vowels of the
\* upper-cased text, last first
extract_consonants(name) == Rev(SelectSeq(to_uppercase(name), is_vowel))

\* the while loop of calc_surname_component: part_vowels.pop() takes the last
\* item of part_vowels
RECURSIVE pop_vowels(_, _)
pop_vowels(cf_part, part_vowels) ==
    IF Len(cf_part) < 3 /\ Len(part_vowels) > 0
    THEN pop_vowels(Append(cf_part, part_vowels[Len(part_vowels)]),
                    SubSeq(part_vowels, 1, Len(part_vowels) - 1))
    ELSE cf_part

\* as calc_surname_component, had extract_consonants no .rev()
calc_surname_component_norev(name) ==
    LET part_consonants == SelectSeq(to_uppercase(name), is_consonant)
        part_vowels == SelectSeq(to_uppercase(name), is_vowel)
    IN  push_xs(pop_vowels(Take(part_consonants, 3), part_vowels))

calc_surname_component(name) ==
    LET part_consonants == SelectSeq(to_uppercase(name), is_consonant)
        part_vowels == extract_consonants(name)
    IN  push_xs(pop_vowels(Take(part_consonants, 3), part_vowels))

----------------------------------------------------------------------------
(* Check character: lib.rs calc_checkchar *)

Panic == "panic"

U8_MAX == 255

\* The for loop over self.codice.char_indices(), from 0-based index i on, with
\* the u8 accumulator at checksum.  CHECKCHARS[&ch] panics on a character
\* that is no key of the map.  "checksum += w" past u8::MAX panics in a build
\* with overflow checks (debug) and wraps modulo 256 otherwise (release).
\* The result is the final accumulator, or -1 for a panic.
RECURSIVE checksum_loop(_, _, _, _)
checksum_loop(codice, i, checksum, bld) ==
    IF i >= Len(codice) THEN checksum
    ELSE LET ch == codice[i + 1] IN
         IF ch \notin DOMAIN CHECKCHARS THEN -1
         ELSE LET w == IF i % 2 = 0 THEN CHECKCHARS[ch][1] ELSE CHECKCHARS[ch][2]
                  sum == checksum + w
              IN  IF sum > U8_MAX
                  THEN IF bld = "debug" THEN -1
                       ELSE checksum_loop(codice, i + 1, sum % (U8_MAX + 1), bld)
                  ELSE checksum_loop(codice, i + 1, sum, bld)

calc_checkchar(codice, bld) ==
    LET checksum == checksum_loop(codice, 0, 0, bld)
    IN  IF checksum < 0 THEN Panic ELSE CHECKMODULI[(checksum % 26) + 1]

----------------------------------------------------------------------------
(* Numbers and text: i32::to_string, format!("{:0w}"), i32::from_str_radix *)

RECURSIVE nat_to_string(_)
nat_to_string(n) ==
    IF n < 10 THEN <<DigitChars[n + 1]>>
    ELSE Append(nat_to_string(n \div 10), DigitChars[(n % 10) + 1])

to_string(n) == IF n < 0 THEN <<"-">> \o nat_to_string(-n) ELSE nat_to_string(n)

RECURSIVE zero_pad(_, _)
zero_pad(digits, width) ==
    IF Len(digits) < width THEN zero_pad(<<"0">> \o digits, width) ELSE digits

\* format!("{:0w}", n): the sign, then zeros up to the width, then the digits
format_padded(n, width) ==
    IF n < 0 THEN <<"-">> \o zero_pad(nat_to_string(-n), width - 1)
    ELSE zero_pad(nat_to_string(n), width)

RECURSIVE digits_value(_, _)
digits_value(s, acc) ==
    IF s = <<>> THEN acc ELSE digits_value(Tail(s), acc * 10 + DigitVal(Head(s)))

AllDigits(s) == \A i \in 1..Len(s) : IsDigit(s[i])

\* i32::from_str_radix(src, 10): an optional sign, then one or more digits
from_str_radix(src) ==
    LET signed == Len(src) > 0 /\ src[1] \in {"+", "-"}
        digits == IF signed THEN Tail(src) ELSE src
    IN  IF Len(digits) = 0 \/ ~AllDigits(digits)
        THEN [ok |-> FALSE, value |-> 0]
        ELSE [ok |-> TRUE,
              value |-> IF signed /\ src[1] = "-"
                        THEN 0 - digits_value(digits, 0)
                        ELSE digits_value(digits, 0)]

----------------------------------------------------------------------------
(* time::strptime(s, "%Y-%m-%d") as lib.rs calls it *)

RECURSIVE leading_digits(_, _)
leading_digits(s, max) ==
    IF max = 0 \/ s = <<>> \/ ~IsDigit(Head(s)) THEN 0
    ELSE 1 + leading_digits(Tail(s), max - 1)

\* between min and max leading digits are consumed and give the value
match_digits(s, min, max) ==
    LET n == leading_digits(s, max)
    IN  IF n >= min
        THEN [ok |-> TRUE, value |-> digits_value(SubSeq(s, 1, n), 0),
              rest |-> SubSeq(s, n + 1, Len(s))]
        ELSE [ok |-> FALSE, value |-> 0, rest |-> s]

match_digits_in_range(s, min, max, lo, hi) ==
    LET m == match_digits(s, min, max)
    IN  IF m.ok /\ m.value >= lo /\ m.value <= hi THEN m
        ELSE [ok |-> FALSE, value |-> 0, rest |-> s]

parse_char(s, c) ==
    IF s # <<>> /\ Head(s) = c THEN [ok |-> TRUE, rest |-> Tail(s)]
    ELSE [ok |-> FALSE, rest |-> s]

TmError == [ok |-> FALSE, tm_year |-> 0, tm_mon |-> 0, tm_mday |-> 0]

\* %Y is four digits; %m is one or two digits in 1..12; %d is one or two digits
\* in 1..31.  The day is not checked against the month and text left after
\* the day is ignored.
strptime(s) ==
    LET y == match_digits(s, 4, 4)
        d1 == parse_char(y.rest, "-")
        m == match_digits_in_range(d1.rest, 1, 2, 1, 12)
        d2 == parse_char(m.rest, "-")
        d == match_digits_in_range(d2.rest, 1, 2, 1, 31)
    IN  IF y.ok /\ d1.ok /\ m.ok /\ d2.ok /\ d.ok
        THEN [ok |-> TRUE, tm_year |-> y.value - 1900, tm_mon |-> m.value - 1,
              tm_mday |-> d.value]
        ELSE TmError

----------------------------------------------------------------------------
(* Regular expressions of lib.rs *)

\* Regex::new("^[A-Z]{3}$").is_match(s)
is_three_upper(s) == Len(s) = 3 /\ \A i \in 1..3 : IsUpper(s[i])

\* Regex::new(PAT_BELFIORE).is_match(s), PAT_BELFIORE = \w\d\d\d: the pattern
\* has no anchors, so a match anywhere in s counts
is_match_belfiore(s) ==
    \E i \in 1..Len(s) :
        /\ i + 3 <= Len(s)
        /\ IsWord(s[i])
        /\ IsDigit(s[i + 1]) /\ IsDigit(s[i + 2]) /\ IsDigit(s[i + 3])

\* code point order of the characters of the model
CharOrder == DigitChars \o UpperLetters \o <<"_">> \o LowerLetters

CharRank(c) == IF c \in Range(CharOrder) THEN IndexOf(CharOrder, c) ELSE 0

\* [T]::binary_search on arr[lo..hi), 0-based: the index found, or -1
RECURSIVE binary_search(_, _, _, _)
binary_search(arr, x, lo, hi) ==
    IF lo >= hi THEN -1
    ELSE LET mid == lo + ((hi - lo) \div 2) IN
         IF arr[mid + 1] = x THEN mid
         ELSE IF CharRank(arr[mid + 1]) < CharRank(x)
              THEN binary_search(arr, x, mid + 1, hi)
              ELSE binary_search(arr, x, lo, mid)

----------------------------------------------------------------------------
(* Records *)

NoText == <<>>

EmptyPerson ==
    [name |-> NoText, surname |-> NoText, birthdate |-> NoText,
     gender |-> "M", belfiore |-> NoText]

EmptyParts ==
    [surname |-> NoText, name |-> NoText, birthyear |-> NoText,
     birthmonth |-> "_", birthday |-> NoText, birthdate |-> NoText,
     belfiore |-> NoText, checkchar |-> "_"]

\* kind: "none" (not called), "ok" (Ok(cf)), "err" (Err(message)), "panic"
NoResult ==
    [kind |-> "none", err |-> "", detail |-> NoText, codice |-> NoText,
     persondata |-> EmptyPerson, codice_parts |-> EmptyParts]

Failed(message, detail) ==
    [kind |-> "err", err |-> message, detail |-> detail, codice |-> NoText,
     persondata |-> EmptyPerson, codice_parts |-> EmptyParts]

Panicked ==
    [kind |-> "panic", err |-> "", detail |-> NoText, codice |-> NoText,
     persondata |-> EmptyPerson, codice_parts |-> EmptyParts]

Succeeded(codice, person, parts) ==
    [kind |-> "ok", err |-> "", detail |-> NoText, codice |-> codice,
     persondata |-> person, codice_parts |-> parts]

----------------------------------------------------------------------------
(* CodiceFiscale::new and its steps *)

calc_birthdate(birthdate, gender) ==
    LET tm_birthdate == strptime(birthdate) IN
    IF ~tm_birthdate.ok
    THEN [ok |-> FALSE, birthyear |-> NoText, birthmonth |-> "_",
          birthday |-> NoText, birthdate |-> NoText]
    ELSE LET tm_year == tm_birthdate.tm_year + 1900
             birthyear ==
                 to_string(IF tm_year < CENTURY_BASE
                           THEN tm_year - 1900
                           ELSE tm_year - CENTURY_BASE)
             birthmonth == MONTHLETTERS[tm_birthdate.tm_mon + 1]
             birthday ==
                 format_padded(IF gender = "F"
                               THEN 40 + tm_birthdate.tm_mday
                               ELSE tm_birthdate.tm_mday, 2)
         IN  [ok |-> TRUE, birthyear |-> birthyear, birthmonth |-> birthmonth,
              birthday |-> birthday,
              birthdate |-> birthyear \o <<birthmonth>> \o birthday]

calc_belfiore(belfiore) ==
    IF ~is_match_belfiore(belfiore)
    THEN [ok |-> FALSE, belfiore |-> NoText]
    ELSE [ok |-> TRUE, belfiore |-> to_uppercase(belfiore)]

new(initdata, bld) ==
    LET surname == calc_surname(initdata.surname)
        name == calc_name(initdata.name)
        bd == calc_birthdate(initdata.birthdate, initdata.gender)
        bf == calc_belfiore(initdata.belfiore)
        codice == surname \o name \o bd.birthdate \o bf.belfiore
        cc == calc_checkchar(codice, bld)
    IN  IF ~bd.ok THEN Failed("invalid-birthdate", NoText)
        ELSE IF ~bf.ok THEN Failed("invalid-belfiore-code", NoText)
        ELSE IF cc = Panic THEN Panicked
        ELSE Succeeded(Append(codice, cc), initdata,
                       [surname |-> surname, name |-> name,
                        birthyear |-> bd.birthyear, birthmonth |-> bd.birthmonth,
                        birthday |-> bd.birthday, birthdate |-> bd.birthdate,
                        belfiore |-> bf.belfiore, checkchar |-> cc])

----------------------------------------------------------------------------
(* CodiceFiscale::parse *)

parse(codice, now, bld) ==
    IF Len(codice) # 16 THEN Failed("invalid-length", NoText)
    ELSE
    LET upper == to_uppercase(codice)
        codice_nolast == SubSeq(upper, 1, 15)
        codice_checkchar == upper[16]
        cc == calc_checkchar(codice_nolast, bld)
        surname == SubSeq(codice, 1, 3)
        name == SubSeq(codice, 4, 6)
        birthyear_txt == SubSeq(codice, 7, 8)
        yy == from_str_radix(birthyear_txt)
        birthyear_num == CENTURY_BASE + yy.value
        birthyear == IF now > birthyear_num THEN birthyear_num ELSE birthyear_num - 100
        birthmonth_chr == codice[9]
        birthday == SubSeq(codice, 10, 11)
        birthmonth == binary_search(MONTHLETTERS, birthmonth_chr, 0, Len(MONTHLETTERS))
        birthdate == format_padded(birthyear, 4) \o <<"-">>
                     \o format_padded(birthmonth + 1, 2) \o <<"-">> \o birthday
        belfiore == SubSeq(codice, 12, 15)
    IN  IF cc = Panic THEN Panicked
        ELSE IF cc # codice_checkchar THEN Failed("invalid-checkchar", NoText)
        ELSE IF ~is_three_upper(surname) THEN Failed("invalid-surname", NoText)
        ELSE IF ~is_three_upper(name) THEN Failed("invalid-name", NoText)
        ELSE IF ~yy.ok THEN Panicked             \* .expect("invalid-birthyear")
        ELSE IF birthmonth < 0 THEN Panicked     \* .expect("invalid-birthmonth")
        ELSE IF ~strptime(birthdate).ok THEN Failed("invalid-birthdate", birthdate)
        ELSE IF ~is_match_belfiore(belfiore) THEN Failed("invalid-belfiore-code", NoText)
        ELSE Succeeded(Append(codice_nolast, codice_checkchar),
                       [name |-> name, surname |-> surname, birthdate |-> birthdate,
                        gender |-> "M", belfiore |-> belfiore],
                       [surname |-> surname, name |-> name,
                        birthyear |-> birthyear_txt, birthmonth |-> birthmonth_chr,
                        birthday |-> birthday, birthdate |-> NoText,
                        belfiore |-> belfiore, checkchar |-> cc])

\* CodiceFiscale::check
check(codice, now, bld) == parse(codice, now, bld).kind = "ok"

----------------------------------------------------------------------------
(* Actions: each applies one operation to the input drawn for it *)

New ==
    /\ newres.kind = "none"
    /\ newres' = new(persondata, build)
    /\ UNCHANGED <<build, now_year, persondata, parse_in, parseres,
                   raw_name, cf_name, name_component, body, checkchar>>
    /\ UNCHANGED surname_vars

\* the caller parses the code that new has just returned
ParseEncoded ==
    /\ newres.kind = "ok"
    /\ parseres.kind = "none"
    /\ parse_in' = newres.codice
    /\ parseres' = parse(newres.codice, now_year, build)
    /\ UNCHANGED <<build, now_year, persondata, newres,
                   raw_name, cf_name, name_component, body, checkchar>>
    /\ UNCHANGED surname_vars

\* the caller parses a text of its own
ParseText ==
    /\ parseres.kind = "none"
    /\ parseres' = parse(parse_in, now_year, build)
    /\ UNCHANGED <<build, now_year, persondata, newres, parse_in,
                   raw_name, cf_name, name_component, body, checkchar>>
    /\ UNCHANGED surname_vars

CalcName ==
    /\ cf_name = NoText
    /\ cf_name' = calc_name(raw_name)
    /\ UNCHANGED <<build, now_year, persondata, newres, parse_in, parseres,
                   raw_name, name_component, body, checkchar>>
    /\ UNCHANGED surname_vars

CalcNameComponent ==
    /\ name_component = NoText
    /\ name_component' = calc_name_component(raw_name)
    /\ UNCHANGED <<build, now_year, persondata, newres, parse_in, parseres,
                   raw_name, cf_name, body, checkchar>>
    /\ UNCHANGED surname_vars

CalcCheckchar ==
    /\ checkchar = "_"
    /\ raw_surname = NoText
    /\ lib_surname = NoText
    /\ surname_component = NoText
    /\ checkchar' = calc_checkchar(body, build)
    /\ UNCHANGED <<build, now_year, persondata, newres, parse_in, parseres,
                   raw_name, cf_name, name_component, body>>
    /\ UNCHANGED surname_vars

CalcSurname ==
    /\ lib_surname = NoText
    /\ lib_surname' = calc_surname(raw_surname)
    /\ UNCHANGED <<build, now_year, persondata, newres, parse_in, parseres,
                   raw_name, cf_name, name_component, body, checkchar,
                   raw_surname, surname_component>>

CalcSurnameComponent ==
    /\ surname_component = NoText
    /\ surname_component' = calc_surname_component(raw_surname)
    /\ UNCHANGED <<build, now_year, persondata, newres, parse_in, parseres,
                   raw_name, cf_name, name_component, body, checkchar,
                   raw_surname, lib_surname>>

----------------------------------------------------------------------------
(* Inputs *)

Builds == {"debug", "release"}

NowYears == {2026, 2027}

FirstNames == {<<"M", "i", "c", "h", "e", "l", "e">>,
     <<"M", "a", "r", "i", "a">>}

Surnames == {<<"B", "e", "l", "t", "r", "a", "m", "e">>,
     <<"R", "o", "s", "s", "i">>}

Genders == {"M", "F"}

BelfioreCodes == {<<"E", "8", "8", "9">>,
     <<"H", "5", "0", "1">>,
     <<"e", "8", "8", "9">>,
     <<"1", "2", "3", "4">>,
     <<"X", "E", "8", "8", "9">>,
     <<"_", "1", "2", "3">>,
     <<"E", "X">>}

BirthYears == {1850, 1970, 1977, 2000, 2005, 2026}
BirthMonths == {1, 2, 4, 11, 13}
BirthDays == {0, 1, 4, 29, 30, 31, 32}

format_date(y, m, d) ==
    format_padded(y, 4) \o <<"-">> \o format_padded(m, 2) \o <<"-">> \o format_padded(d, 2)

MalformedDates == {<<"1", "9", "7", "7", "-", "1", "x", "-", "0", "4">>,
     <<"7", "7", "-", "1", "1", "-", "0", "4">>}

Birthdates ==
    {format_date(y, m, d) : y \in BirthYears, m \in BirthMonths, d \in BirthDays}
        \cup MalformedDates

PersonInputs ==
    [name : FirstNames, surname : Surnames, birthdate : Birthdates,
     gender : Genders, belfiore : BelfioreCodes]

\* fragments of the texts handed to parse
NameFrags == {<<"B", "L", "T", "M", "H", "L">>,
     <<"R", "S", "S", "M", "R", "A">>,
     <<"X", "Z", "X", "Z", "X", "Z">>,
     <<"b", "l", "t", "m", "h", "l">>,
     <<"B", "L", "-", "M", "H", "L">>}
YearFrags == {<<"7", "7">>,
     <<"7", "0">>,
     <<"2", "6">>,
     <<"2", "7">>,
     <<"A", "7">>}
MonthFrags == {"S", "A", "M", "Z", "s"}
DayFrags == {<<"0", "4">>,
     <<"4", "1">>,
     <<"3", "0">>,
     <<"0", "0">>}
PlaceFrags == {<<"E", "8", "8", "9">>,
     <<"H", "5", "0", "1">>,
     <<"Z", "9", "9", "9">>,
     <<"E", "8", "8", "X">>}

ParseBodies ==
    {n \o y \o <<m>> \o d \o p :
        n \in NameFrags, y \in YearFrags, m \in MonthFrags, d \in DayFrags, p \in PlaceFrags}

WrongLengthInputs == {<<>>,
     <<"B", "L", "T", "M", "H", "L", "7", "7", "S", "0", "4", "E", "8", "8", "9">>,
     <<"B", "L", "T", "M", "H", "L", "7", "7", "S", "0", "4", "E", "8", "8", "9", "G", "G">>}

ParseInputs ==
    {Append(b, c) : b \in ParseBodies, c \in Range(UpperLetters)} \cup WrongLengthInputs

\* bodies over the 36-symbol alphabet A-Z, 0-9
Bodies == {b \in ParseBodies : \A i \in 1..Len(b) : IsUpper(b[i]) \/ IsDigit(b[i])}

MaxNameLen == 5

NameChars == {"B", "c", "D", "A", "e", "-"}

RECURSIVE TextsUpTo(_, _)
TextsUpTo(chars, n) ==
    IF n = 0 THEN {<<>>}
    ELSE LET shorter == TextsUpTo(chars, n - 1)
         IN  shorter \cup {Append(t, c) : t \in {u \in shorter : Len(u) = n - 1}, c \in chars}

Names == TextsUpTo(NameChars, MaxNameLen)

----------------------------------------------------------------------------
(* Specifications *)

\* encode of a drawn person, then decode of what was encoded
Init ==
    /\ build \in Builds
    /\ now_year \in NowYears
    /\ persondata \in PersonInputs
    /\ newres = NoResult
    /\ parse_in = NoText
    /\ parseres = NoResult
    /\ raw_name = NoText
    /\ cf_name = NoText
    /\ name_component = NoText
    /\ body = NoText
    /\ checkchar = "_"
    /\ raw_surname = NoText
    /\ lib_surname = NoText
    /\ surname_component = NoText

Next == New \/ ParseEncoded

Spec == Init /\ [][Next]_vars

\* decode of a drawn text
InitParse ==
    /\ build \in Builds
    /\ now_year \in NowYears
    /\ persondata = EmptyPerson
    /\ newres = NoResult
    /\ parse_in \in ParseInputs
    /\ parseres = NoResult
    /\ raw_name = NoText
    /\ cf_name = NoText
    /\ name_component = NoText
    /\ body = NoText
    /\ checkchar = "_"
    /\ raw_surname = NoText
    /\ lib_surname = NoText
    /\ surname_component = NoText

NextParse == ParseText

SpecParse == InitParse /\ [][NextParse]_vars

\* the two name-fragment functions applied to one drawn name
\* (neither function reads the build or the clock)
InitName ==
    /\ build = "release"
    /\ now_year = CENTURY_BASE
    /\ persondata = EmptyPerson
    /\ newres = NoResult
    /\ parse_in = NoText
    /\ parseres = NoResult
    /\ raw_name \in Names
    /\ cf_name = NoText
    /\ name_component = NoText
    /\ body = NoText
    /\ checkchar = "_"
    /\ raw_surname = NoText
    /\ lib_surname = NoText
    /\ surname_component = NoText

NextName == CalcName \/ CalcNameComponent

SpecName == InitName /\ [][NextName]_vars

\* the two surname-fragment functions applied to one drawn surname
\* (neither function reads the build or the clock)
InitSurname ==
    /\ build = "release"
    /\ now_year = CENTURY_BASE
    /\ persondata = EmptyPerson
    /\ newres = NoResult
    /\ parse_in = NoText
    /\ parseres = NoResult
    /\ raw_name = NoText
    /\ cf_name = NoText
    /\ name_component = NoText
    /\ body = NoText
    /\ checkchar = "_"
    /\ raw_surname \in Names
    /\ lib_surname = NoText
    /\ surname_component = NoText

NextSurname == CalcSurname \/ CalcSurnameComponent

SpecSurname == InitSurname /\ [][NextSurname]_vars

\* calc_checkchar applied to one drawn 15-character body
InitCheck ==
    /\ build \in Builds
    /\ now_year \in NowYears
    /\ persondata = EmptyPerson
    /\ newres = NoResult
    /\ parse_in = NoText
    /\ parseres = NoResult
    /\ raw_name = NoText
    /\ cf_name = NoText
    /\ name_component = NoText
    /\ body \in Bodies
    /\ checkchar = "_"
    /\ raw_surname = NoText
    /\ lib_surname = NoText
    /\ surname_component = NoText

NextCheck == CalcCheckchar

SpecCheck == InitCheck /\ [][NextCheck]_vars

----------------------------------------------------------------------------
(* What the claims speak of *)

IsAlnumUpper(s) == \A i \in 1..Len(s) : IsUpper(s[i]) \/ IsDigit(s[i])

\* [A-Z]{6}[0-9]{2}[ABCDEHLMPRST][0-9]{2}[A-Z][0-9]{3}[A-Z]
MatchesLayout(c) ==
    /\ Len(c) = 16
    /\ \A i \in 1..6 : IsUpper(c[i])
    /\ IsDigit(c[7]) /\ IsDigit(c[8])
    /\ c[9] \in Range(MONTHLETTERS)
    /\ IsDigit(c[10]) /\ IsDigit(c[11])
    /\ IsUpper(c[12])
    /\ IsDigit(c[13]) /\ IsDigit(c[14]) /\ IsDigit(c[15])
    /\ IsUpper(c[16])

\* the sum S of the weights of a body, in unbounded integers
RECURSIVE ExactSum(_, _)
ExactSum(b, i) ==
    IF i >= Len(b) THEN 0
    ELSE (IF i % 2 = 0 THEN CHECKCHARS[b[i + 1]][1] ELSE CHECKCHARS[b[i + 1]][2])
         + ExactSum(b, i + 1)

ExactCheckLetter(b) == UpperLetters[(ExactSum(b, 0) % 26) + 1]

IsLeapYear(y) == (y % 4 = 0 /\ y % 100 # 0) \/ y % 400 = 0

DaysInMonth(y, m) ==
    IF m = 2 THEN (IF IsLeapYear(y) THEN 29 ELSE 28)
    ELSE IF m \in {4, 6, 9, 11} THEN 30 ELSE 31

\* a real calendar date written YYYY-MM-DD
IsCalendarDate(s) ==
    /\ Len(s) = 10
    /\ s[5] = "-" /\ s[8] = "-"
    /\ \A i \in {1, 2, 3, 4, 6, 7, 9, 10} : IsDigit(s[i])
    /\ LET y == digits_value(SubSeq(s, 1, 4), 0)
           m == digits_value(SubSeq(s, 6, 7), 0)
           d == digits_value(SubSeq(s, 9, 10), 0)
       IN  m \in 1..12 /\ d >= 1 /\ d <= DaysInMonth(y, m)

\* a well-formed code with the right check letter whose day fragment is that
\* of a woman: 41..71, and day - 40 a day of the month
IsFemaleCode(c) ==
    /\ MatchesLayout(c)
    /\ c[16] = ExactCheckLetter(SubSeq(c, 1, 15))
    /\ LET frag == digits_value(SubSeq(c, 10, 11), 0)
           m == IndexOf(MONTHLETTERS, c[9])
       IN  frag >= 41 /\ frag <= 71 /\ frag - 40 <= DaysInMonth(1972, m)

\* the given-name rule as the specification words it
NameRule(name) ==
    LET up == to_uppercase(name)
        cons == SelectSeq(up, is_consonant)
        vows == SelectSeq(up, is_vowel)
    IN  IF Len(cons) >= 4 THEN <<cons[1], cons[3], cons[4]>>
        ELSE SubSeq(cons \o vows \o <<"X", "X", "X">>, 1, 3)

----------------------------------------------------------------------------
(* Claims *)

\* C1: every string a successful new returns has length 16 and the layout
\* [A-Z]{6}[0-9]{2}[ABCDEHLMPRST][0-9]{2}[A-Z][0-9]{3}[A-Z].
C1_EncodeLayout ==
    newres.kind = "ok" => MatchesLayout(newres.codice)

\* C2: parse of the code a successful new returned succeeds and reports the
\* month, the day, the sex and the birthplace code of the person encoded.
C2_RoundTrip ==
    (newres.kind = "ok" /\ parseres.kind # "none") =>
        /\ parseres.kind = "ok"
        /\ LET given == strptime(persondata.birthdate)
               read == strptime(parseres.persondata.birthdate)
           IN  /\ read.tm_mon = given.tm_mon
               /\ read.tm_mday = given.tm_mday
        /\ parseres.persondata.gender = persondata.gender
        /\ parseres.persondata.belfiore = to_uppercase(persondata.belfiore)

\* C3: for a 15-character body over A-Z, 0-9 calc_checkchar returns the letter
\* at index S mod 26, S the exact sum of the positional weights; the 8-bit
\* accumulator neither overflows nor changes the result.
C3_ChecksumExact ==
    checkchar # "_" => checkchar = ExactCheckLetter(body)

\* C4: a code with the right check letter and a day fragment in 41..71 parses
\* successfully, as a woman, born on the day fragment - 40.
C4_FemaleDayDecoded ==
    (parseres.kind # "none" /\ IsFemaleCode(parse_in)) =>
        /\ parseres.kind = "ok"
        /\ parseres.persondata.gender = "F"
        /\ strptime(parseres.persondata.birthdate).tm_mday
               = digits_value(SubSeq(parse_in, 10, 11), 0) - 40

\* C5: for a 16-character text over A-Z, 0-9 whose last character is not the
\* check letter of its first 15, parse fails with invalid-checkchar whatever
\* the other fragments hold.
C5_CheckcharBeforeFragments ==
    ( /\ parseres.kind # "none"
      /\ Len(parse_in) = 16
      /\ IsAlnumUpper(parse_in)
      /\ parse_in[16] # ExactCheckLetter(SubSeq(parse_in, 1, 15)) ) =>
        (parseres.kind = "err" /\ parseres.err = "invalid-checkchar")

\* C6: new fails with invalid-birthdate for every birthdate that is not a
\* real calendar date written YYYY-MM-DD.
C6_UnrealDateRejected ==
    (newres.kind # "none" /\ ~IsCalendarDate(persondata.birthdate)) =>
        (newres.kind = "err" /\ newres.err = "invalid-birthdate")

\* C7: parse never aborts: for every text it returns a CodiceFiscale or an
\* error, and a month letter outside the table gives invalid-birthmonth.
C7_ParseNeverAborts ==
    parseres.kind # "none" =>
        /\ parseres.kind \in {"ok", "err"}
        /\ ( /\ Len(parse_in) = 16
             /\ MatchesLayout(SubSeq(parse_in, 1, 8) \o <<"A">> \o SubSeq(parse_in, 10, 16))
             /\ parse_in[16] = ExactCheckLetter(SubSeq(parse_in, 1, 15))
             /\ parse_in[9] \notin Range(MONTHLETTERS) ) =>
               (parseres.kind = "err" /\ parseres.err = "invalid-birthmonth")

\* C8: the year read is 2000 + yy, less 100 only when 2000 + yy is strictly
\* later than the current year.
C8_CenturyOnlyWhenLater ==
    parseres.kind = "ok" =>
        LET yy == digits_value(SubSeq(parse_in, 7, 8), 0)
            read == digits_value(SubSeq(parseres.persondata.birthdate, 1, 4), 0)
        IN  read = IF CENTURY_BASE + yy > now_year
                   THEN CENTURY_BASE + yy - 100
                   ELSE CENTURY_BASE + yy

\* C9: the year fragment new writes is the birth year modulo 100 as exactly
\* two digits, with a leading zero when needed.
C9_YearFragmentTwoDigits ==
    newres.kind = "ok" =>
        newres.codice_parts.birthyear
            = format_padded((strptime(persondata.birthdate).tm_year + 1900) % 100, 2)

\* C10: the name fragment is 3 upper-case letters, the 1st, 3rd and 4th
\* consonant when there are 4 or more, else consonants, then vowels, then X;
\* calc_name and calc_name_component both return it.
C10_NameFragment ==
    /\ cf_name # NoText =>
        /\ cf_name = NameRule(raw_name)
        /\ is_three_upper(cf_name)
    /\ name_component # NoText =>
        /\ name_component = NameRule(raw_name)
        /\ is_three_upper(name_component)

\* C10 witness: both functions have run on a name of 5 letters with 4 or more
\* consonants and a vowel, and agree.
C10_Witness ==
    /\ cf_name # NoText
    /\ name_component # NoText
    /\ cf_name = name_component
    /\ Len(SelectSeq(to_uppercase(raw_name), is_consonant)) >= 4
    /\ Len(SelectSeq(to_uppercase(raw_name), is_vowel)) >= 1

\* the surname rule as the specification words it
SurnameRule(surname) ==
    LET up == to_uppercase(surname)
        cons == SelectSeq(up, is_consonant)
        vows == SelectSeq(up, is_vowel)
    IN  SubSeq(Take(cons, 3) \o vows \o <<"X", "X", "X">>, 1, 3)

\* C11: the surname fragment is the first up-to-3 consonants, then the vowels
\* in their original order until length 3, then X; a surname without letters
\* gives XXX; calc_surname and calc_surname_component both return it.
C11_SurnameFragment ==
    /\ lib_surname # NoText =>
        /\ lib_surname = SurnameRule(raw_surname)
        /\ is_three_upper(lib_surname)
    /\ surname_component # NoText =>
        /\ surname_component = SurnameRule(raw_surname)
        /\ is_three_upper(surname_component)
    /\ (lib_surname # NoText /\ SelectSeq(to_uppercase(raw_surname), IsUpper) = <<>>) =>
        lib_surname = <<"X", "X", "X">>
    /\ (surname_component # NoText /\ SelectSeq(to_uppercase(raw_surname), IsUpper) = <<>>) =>
        surname_component = <<"X", "X", "X">>

\* C11 witness: both functions have run on a surname with one consonant and
\* two different vowels, where the order of the vowels shows, and agree.
C11_Witness ==
    /\ lib_surname # NoText
    /\ surname_component = lib_surname
    /\ Len(SelectSeq(to_uppercase(raw_surname), is_consonant)) = 1
    /\ LET vows == SelectSeq(to_uppercase(raw_surname), is_vowel)
       IN  Len(vows) >= 2 /\ vows[1] # vows[2]

\* exactly one letter followed by three digits
IsLetterThreeDigits(s) ==
    /\ Len(s) = 4
    /\ IsUpper(s[1]) \/ IsLower(s[1])
    /\ IsDigit(s[2]) /\ IsDigit(s[3]) /\ IsDigit(s[4])

\* C12: new fails with invalid-belfiore-code unless the birthplace code is
\* exactly one letter followed by three digits (the birthdate, tested first,
\* being accepted); when new succeeds the birthplace fragment is 4
\* characters, an upper-case letter and three digits.
C12_BelfioreShape ==
    /\ ( /\ newres.kind # "none"
         /\ strptime(persondata.birthdate).ok
         /\ ~IsLetterThreeDigits(persondata.belfiore) ) =>
           (newres.kind = "err" /\ newres.err = "invalid-belfiore-code")
    /\ newres.kind = "ok" =>
           /\ IsLetterThreeDigits(newres.codice_parts.belfiore)
           /\ IsUpper(newres.codice_parts.belfiore[1])

\* C13: when parse accepts a code, it accepts the same code written in lower
\* or mixed case too, and returns the same stored code and person data.
C13_ParseAnyCase ==
    ( /\ parseres.kind # "none"
      /\ parse(to_uppercase(parse_in), now_year, build).kind = "ok" ) =>
        /\ parseres.kind = "ok"
        /\ parseres.codice = parse(to_uppercase(parse_in), now_year, build).codice
        /\ parseres.persondata = parse(to_uppercase(parse_in), now_year, build).persondata

====
